---- MODULE Spec2Model ----
(***************************************************************************)
(* A model of aio_marantz_avr: one MarantzAVR session (avr.py) driven by   *)
(* cooperative asyncio tasks, its telnet transport and the device behind   *)
(* it.  Lines and payloads are strings, handled character by character as  *)
(* the Python code handles them.                                           *)
(***************************************************************************)
EXTENDS Integers, Sequences, FiniteSets, TLC

VARIABLES
    data,      \* MarantzAVR._data: key -> <<>> (None) or <<payload>>
    reading,   \* MarantzAVR._reading, the guard flag
    inbox,     \* lines the reader has buffered, oldest first
    eof,       \* the reader was fed end-of-stream
    broken,    \* the reader holds a ConnectionError
    pc,        \* per task: where its coroutine stands
    call,      \* per task: the public operation it runs
    idx,       \* per task: refresh's position in DATA_DEFS
    pending,   \* per task: pending_names of its _wait_for_response
    seen,      \* per task: expected keys parsed from lines its wait has read
    acquired,  \* per task: its current or last wait set the guard
    got,       \* per refreshing task: expected keys parsed since its last query
    overlap,   \* per task: a wait was active, and the stream open, at its call
    scen,      \* the operation a sequential session's caller uses
    cli,       \* the command-line run on this session: its flags and progress
    stale,     \* how many of the oldest buffered lines arrived before the last write
    ev         \* the last step: what was read or written, how the operation ended

vars == <<data, reading, inbox, eof, broken, pc, call, idx, pending, seen,
          acquired, got, overlap, scen, cli, stale, ev>>

----------------------------------------------------------------------------
(* Bounds of the model.                                                    *)

\* Lines the reader buffers at most.
MaxInbox == 1

\* Flags a command line gives at most.
MaxFlags == 2

Tasks == {1, 2}

----------------------------------------------------------------------------
(* Strings.                                                                *)

None == <<>>
Some(s) == <<s>>

Whitespace == {" ", "\t", "\n", "\r", "\f"}

StartsWith(s, p) == Len(s) >= Len(p) /\ SubSeq(s, 1, Len(p)) = p

Skip(s, n) == SubSeq(s, n + 1, Len(s))

RECURSIVE LStrip(_)
LStrip(s) ==
    IF s # "" /\ SubSeq(s, 1, 1) \in Whitespace THEN LStrip(Skip(s, 1)) ELSE s

RECURSIVE RStrip(_)
RStrip(s) ==
    IF s # "" /\ SubSeq(s, Len(s), Len(s)) \in Whitespace
    THEN RStrip(SubSeq(s, 1, Len(s) - 1))
    ELSE s

\* A faulty variant: the response is not stripped.
StripNothing(s) == s

\* str.strip()
Strip(s) == RStrip(LStrip(s))

----------------------------------------------------------------------------
(* The data definitions.                                                   *)

\* A faulty variant: the first two definitions change places.
DATA_DEFS_Reordered == <<
    [query |-> "MU?", data_names |-> <<"MU">>],
    [query |-> "PW?", data_names |-> <<"PW">>],
    [query |-> "MV?", data_names |-> <<"MV", "MVMAX">>],
    [query |-> "SI?", data_names |-> <<"SI">>],
    [query |-> "MS?", data_names |-> <<"MS">>] >>

\* DATA_DEFS: query and data_names.
DATA_DEFS == <<
    [query |-> "PW?", data_names |-> <<"PW">>],
    [query |-> "MU?", data_names |-> <<"MU">>],
    [query |-> "MV?", data_names |-> <<"MV", "MVMAX">>],
    [query |-> "SI?", data_names |-> <<"SI">>],
    [query |-> "MS?", data_names |-> <<"MS">>] >>

\* _data.keys(), in insertion order.
KeyOrder == <<"PW", "MU", "MV", "MVMAX", "SI", "MS">>

Keys == {KeyOrder[i] : i \in 1..Len(KeyOrder)}

\* A faulty variant: the entries start as empty strings.
PrepareDataEmpty == [k \in Keys |-> <<"">>]

\* _prepare_data
PrepareData == [k \in Keys |-> None]

Range(seq) == {seq[i] : i \in 1..Len(seq)}

----------------------------------------------------------------------------
(* The enumerated vocabularies: member name and wire token, in definition  *)
(* order.                                                                  *)

Power == <<
    <<"Off", "OFF">>,
    <<"On", "ON">>,
    <<"Standby", "STANDBY">> >>

InputSource == <<
    <<"Phono", "PHONO">>,
    <<"CD", "CD">>,
    <<"DVD", "DVD">>,
    <<"Bluray", "BD">>,
    <<"TV", "TV">>,
    <<"CblSat", "SAT/CBL">>,
    <<"MediaPlayer", "MPLAY">>,
    <<"Game", "GAME">>,
    <<"Tuner", "TUNER">>,
    <<"HDRadio", "HDRADIO">>,
    <<"SiriusXM", "SIRIUSXM">>,
    <<"Pandora", "PANDORA">>,
    <<"InternetRadio", "IRADIO">>,
    <<"Server", "SERVER">>,
    <<"Favorites", "FAVORITES">>,
    <<"Aux1", "AUX1">>,
    <<"Aux2", "AUX2">>,
    <<"Aux3", "AUX3">>,
    <<"Aux4", "AUX4">>,
    <<"Aux5", "AUX5">>,
    <<"Aux6", "AUX6">>,
    <<"Aux7", "AUX7">>,
    <<"OnlineMusic", "NET">>,
    <<"Bluetooth", "BT">> >>

SurroundMode == <<
    <<"Movie", "MOVIE">>,
    <<"Music", "MUSIC">>,
    <<"Game", "GAME">>,
    <<"Direct", "DIRECT">>,
    <<"PureDirect", "PURE DIRECT">>,
    <<"Stereo", "STEREO">>,
    <<"Auto", "AUTO">>,
    <<"DolbyDigital", "DOLBY DIGITAL">>,
    <<"DtsSurround", "DTS SURROUND">>,
    <<"Auro3D", "AURO3D">>,
    <<"Auro2DSurround", "AURO2DSURR">>,
    <<"MultiChannelStereo", "MCH STEREO">>,
    <<"Virtual", "VIRTUAL">>,
    <<"Left", "LEFT">>,
    <<"Right", "RIGHT">>,
    <<"DolbySurround", "DOLBY SURROUND">>,
    <<"DolbyAtmos", "DOLBY ATMOS">>,
    <<"DolbyDigitalDS", "DOLBY D+DS">>,
    <<"DolbyDigitalNeuralX", "DOLBY D+NEURAL:X">>,
    <<"DolbyDigitalPlus", "DOLBY D+">>,
    <<"DolbyDigitalPlusDS", "DOLBY D+ +DS">>,
    <<"DolbyDigitalPlusNeuralX", "DOLBY D+ +NEURAL:X">>,
    <<"DolbyHD", "DOLBY HD">>,
    <<"DolbyHDDS", "DOLBY HD+DS">>,
    <<"DolbyHDNeuralX", "DOLBY HD+NEURAL:X">>,
    <<"NeuralX", "NEURAL:X">>,
    <<"DtsEsDscrt6_1", "DTS ES DSCRT6.1">>,
    <<"DtsEsMtrx6_1", "DTS ES MTRX6.1">>,
    <<"DtsDS", "DTS+DS">>,
    <<"DtsNeuralX", "DTS+NEURAL:X">>,
    <<"DtsEsMtrxNeuralX", "DTS ES MTRX+NEURAL:X">>,
    <<"DtsEsDscrtNeuralX", "DTS ES DSCRT+NEURAL:X">>,
    <<"Dts96_24", "DTS96/24">>,
    <<"Dts96EsMtrx", "DTS96 ES MTRX">>,
    <<"DtsHD", "DTS HD">>,
    <<"DtsHDMstr", "DTS HD MSTR">>,
    <<"DtsHDDS", "MSDTS HD+DS">>,
    <<"DtsHDNeuralX", "DTS HD+NEURAL:X">>,
    <<"DtsX", "DTS:X">>,
    <<"DtsXMstr", "DTS:X MSTR">>,
    <<"DtsExpress", "DTS EXPRESS">>,
    <<"DtsES8ChDscrt", "DTS ES 8CH DSCRT">>,
    <<"MultiChIn", "MULTI CH IN">>,
    <<"MultiChInDS", "M CH IN+DS">>,
    <<"MultiChInNeuralX", "M CH IN+NEURAL:X">>,
    <<"MultiChIn7_1", "MULTI CH IN 7.1">> >>

Raise(e) == <<"raise", e>>

\* member.value
EnumValue(enum_type, member) ==
    LET i == CHOOSE j \in 1..Len(enum_type) : enum_type[j][1] = member
    IN  enum_type[i][2]

\* A faulty variant: enum_type[value], the lookup by member name.
EnumLookupByName(enum_type, value) ==
    LET hits == {j \in 1..Len(enum_type) : enum_type[j][1] = value}
    IN  IF hits = {} THEN Raise("KeyError")
        ELSE Some(enum_type[CHOOSE j \in hits : TRUE][1])

\* enum_type(value): the first member with that value, or ValueError.
EnumLookup(enum_type, value) ==
    LET hits == {j \in 1..Len(enum_type) : enum_type[j][2] = value}
    IN  IF hits = {} THEN Raise("ValueError")
        ELSE Some(enum_type[CHOOSE j \in hits : \A h \in hits : j <= h][1])

\* _on_off_from_bool
OnOffFromBool(value) == IF value THEN "ON" ELSE "OFF"

\* _on_off_to_bool
OnOffToBool(value) == value = "ON"

Digits == "0123456789"

IsDigit(c) == \E d \in 0..9 : SubSeq(Digits, d + 1, d + 1) = c

DigitVal(c) == CHOOSE d \in 0..9 : SubSeq(Digits, d + 1, d + 1) = c

AllDigits(s) == s # "" /\ \A i \in 1..Len(s) : IsDigit(SubSeq(s, i, i))

RECURSIVE DigitsVal(_)
DigitsVal(s) ==
    IF s = "" THEN 0
    ELSE 10 * DigitsVal(SubSeq(s, 1, Len(s) - 1)) + DigitVal(SubSeq(s, Len(s), Len(s)))

RECURSIVE NatStr(_)
NatStr(n) ==
    IF n < 10 THEN SubSeq(Digits, n + 1, n + 1)
    ELSE NatStr(n \div 10) \o SubSeq(Digits, (n % 10) + 1, (n % 10) + 1)

\* f"{level:02}": the sign, then the digits zero-padded to a width of two.
Format02(level) ==
    IF level < 0 THEN "-" \o NatStr(0 - level)
    ELSE IF level < 10 THEN "0" \o NatStr(level)
    ELSE NatStr(level)

\* float(value) for a payload of an optional sign and decimal digits; any
\* other text is a ValueError here.  The result is counted in tenths.
FloatTenths(value) ==
    IF AllDigits(value) THEN Some(10 * DigitsVal(value))
    ELSE IF Len(value) > 1 /\ SubSeq(value, 1, 1) = "-" /\ AllDigits(Skip(value, 1))
         THEN Some(0 - 10 * DigitsVal(Skip(value, 1)))
    ELSE IF Len(value) > 1 /\ SubSeq(value, 1, 1) = "+" /\ AllDigits(Skip(value, 1))
         THEN Some(10 * DigitsVal(Skip(value, 1)))
    ELSE Raise("ValueError")

----------------------------------------------------------------------------
(* The typed accessors, over a cache d.                                    *)

\* _get_boolean_data
GetBooleanData(d, name) ==
    IF d[name] # None THEN Some(OnOffToBool(d[name][1])) ELSE None

\* A faulty variant: a token the vocabulary does not have reads as unknown.
GetEnumDataLenient(d, name, enum_type) ==
    IF d[name] # None /\ Len(EnumLookup(enum_type, d[name][1])) = 1
    THEN EnumLookup(enum_type, d[name][1])
    ELSE None

\* _get_enum_data
GetEnumData(d, name, enum_type) ==
    IF d[name] # None THEN EnumLookup(enum_type, d[name][1]) ELSE None

\* A faulty variant: the payload of three characters is not divided.
GetVolumeLevelWhole(d, name) ==
    IF d[name] = None THEN None ELSE FloatTenths(Strip(d[name][1]))

\* _get_volume_level, in tenths: a payload of three characters is divided
\* by ten.
GetVolumeLevel(d, name) ==
    IF d[name] = None THEN None
    ELSE LET value == Strip(d[name][1])
             level == FloatTenths(value)
         IN  IF Len(level) # 1 THEN level
             ELSE IF Len(value) = 3 THEN Some(level[1] \div 10)
             ELSE level

power(d) == GetEnumData(d, "PW", Power)
is_volume_muted(d) == GetBooleanData(d, "MU")
volume_level(d) == GetVolumeLevel(d, "MV")
max_volume_level(d) == GetVolumeLevel(d, "MVMAX")
source(d) == GetEnumData(d, "SI", InputSource)
sound_mode(d) == GetEnumData(d, "MS", SurroundMode)

\* The typed accessor of each key.
Accessor(k, d) ==
    CASE k = "PW" -> power(d)
      [] k = "MU" -> is_volume_muted(d)
      [] k = "MV" -> volume_level(d)
      [] k = "MVMAX" -> max_volume_level(d)
      [] k = "SI" -> source(d)
      [] k = "MS" -> sound_mode(d)

----------------------------------------------------------------------------
(* The response parser.                                                    *)

\* matches: the keys the response starts with, in the order of _data.keys().
Matches(response) == SelectSeq(KeyOrder, LAMBDA name : StartsWith(response, name))

\* A faulty variant: matches[0] without the sort.
FirstMatch(response) == Matches(response)[1]

\* matches.sort(key=len, reverse=True); matches[0]: the first of the longest.
LongestMatch(response) ==
    LET m == Matches(response)
        i == CHOOSE j \in 1..Len(m) :
                 /\ \A h \in 1..Len(m) : Len(m[h]) <= Len(m[j])
                 /\ \A h \in 1..(j - 1) : Len(m[h]) < Len(m[j])
    IN  m[i]

\* _process_response: the matched key (None without a match) ...
ProcessMatch(response) ==
    IF Matches(response) = <<>> THEN None ELSE Some(LongestMatch(response))

\* A faulty variant: an entry that holds a payload keeps it.
ProcessDataKeepFirst(d, response) ==
    IF ProcessMatch(response) = None THEN d
    ELSE LET match == ProcessMatch(response)[1]
         IN  IF d[match] # None THEN d
             ELSE [d EXCEPT ![match] = Some(Skip(Strip(response), Len(match)))]

\* A faulty variant: the payload is stored under the first key that
\* matches, not the longest.
ProcessDataFirst(d, response) ==
    IF Matches(response) = <<>> THEN d
    ELSE LET match == Matches(response)[1]
         IN  [d EXCEPT ![match] = Some(Skip(Strip(response), Len(match)))]

\* A faulty variant: the payload is stored under the first two characters
\* of the response, whether a key matched or not.
ProcessDataUnmatched(d, response) ==
    LET name == SubSeq(response, 1, 2)
    IN  [k \in DOMAIN d \cup {name} |->
            IF k = name THEN Some(Skip(Strip(response), 2)) ELSE d[k]]

\* ... and the cache after it.
ProcessData(d, response) ==
    IF Matches(response) = <<>> THEN d
    ELSE LET match == LongestMatch(response)
         IN  [d EXCEPT ![match] = Some(Skip(Strip(response), Len(match)))]

----------------------------------------------------------------------------
(* The public operations.                                                  *)

Call(name, mute, level, member) ==
    [name |-> name, mute |-> mute, level |-> level, member |-> member]

NoCall == Call("none", FALSE, 0, "")
Refresh == Call("refresh", FALSE, 0, "")

\* The single-property commands, with the arguments the model draws.
Commands(mutes, levels, sources, modes) ==
    {Call("turn_on", FALSE, 0, ""), Call("turn_off", FALSE, 0, ""),
     Call("volume_level_up", FALSE, 0, ""), Call("volume_level_down", FALSE, 0, "")}
    \cup {Call("mute_volume", m, 0, "") : m \in mutes}
    \cup {Call("set_volume_level", FALSE, l, "") : l \in levels}
    \cup {Call("select_source", FALSE, 0, s) : s \in sources}
    \cup {Call("select_sound_mode", FALSE, 0, s) : s \in modes}

\* The text a single-property command hands to _send_command, joined.
CommandText(c) ==
    CASE c.name = "turn_on" -> "PW" \o "ON"
      [] c.name = "turn_off" -> "PW" \o "STANDBY"
      [] c.name = "mute_volume" -> "MU" \o OnOffFromBool(c.mute)
      [] c.name = "set_volume_level" -> "MV" \o Format02(c.level)
      [] c.name = "volume_level_up" -> "MVUP"
      [] c.name = "volume_level_down" -> "MVDOWN"
      [] c.name = "select_source" -> "SI" \o EnumValue(InputSource, c.member)
      [] c.name = "select_sound_mode" -> "MS" \o EnumValue(SurroundMode, c.member)

\* The key a single-property command waits for.
CommandKey(c) ==
    CASE c.name \in {"turn_on", "turn_off"} -> "PW"
      [] c.name = "mute_volume" -> "MU"
      [] c.name \in {"set_volume_level", "volume_level_up", "volume_level_down"} -> "MV"
      [] c.name = "select_source" -> "SI"
      [] c.name = "select_sound_mode" -> "MS"

\* The names an operation hands to _wait_for_response_with_timeout.
NamesOf(c, i) ==
    IF c.name = "refresh" THEN DATA_DEFS[i].data_names ELSE <<CommandKey(c)>>

Names(t) == NamesOf(call[t], idx[t])

----------------------------------------------------------------------------
(* The transport.                                                          *)

\* A faulty variant: end-of-stream is never noticed.
StreamEndedNever(buffer) == FALSE

\* reader.at_eof(), over the lines buffered: end-of-stream was fed and the
\* buffer is drained.
StreamEnded(buffer) == eof /\ buffer = <<>>

AtEof == StreamEnded(inbox)

\* A faulty variant: the terminator is written with each part.
WrittenPerPart(text) == SubSeq(text, 1, 2) \o "\r" \o SubSeq(text, 3, Len(text)) \o "\r"

\* A faulty variant: the terminator is not written.
WrittenUnterminated(text) == text

\* writer.write("".join(parts)); writer.write("\r")
Written(text) == text \o "\r"

\* A step: its kind and task, the operation if the step is its call, the
\* line it read or the device sent, the bytes it wrote, and how the operation
\* ended if it ended.
Event(kind, t, op, line, wrote, outcome) ==
    [kind |-> kind, task |-> t, op |-> op, line |-> line, wrote |-> wrote,
     res |-> outcome]

----------------------------------------------------------------------------
(* The guard of _wait_for_response.                                        *)

\* A faulty variant: the guard is not consulted.
GuardIgnored == FALSE

\* if self._reading: return
GuardHeld == reading

\* A faulty variant: the flag stays as it is when the wait ends.
ReleaseForgotten == reading

\* finally: self._reading = False
Released == FALSE

\* A faulty variant: pending_names.clear().
RemoveAll(names, match) == <<>>

\* pending_names.remove(match): the first occurrence goes.
Remove(names, match) ==
    LET i == CHOOSE j \in 1..Len(names) :
                 names[j] = match /\ \A h \in 1..(j - 1) : names[h] # match
    IN  SubSeq(names, 1, i - 1) \o SubSeq(names, i + 1, Len(names))

\* if match in pending_names
Expected(match, names) == match # None /\ match[1] \in Range(names)

\* A faulty variant: the timeout is reported as a disconnection.
TimeoutRaisesDisconnected == "DisconnectedError"

\* except asyncio.TimeoutError: raise AvrTimeoutError
TimeoutRaises == "AvrTimeoutError"

\* if not line and at_eof(): raise DisconnectedError
EofRaises == "DisconnectedError"

\* A faulty variant: the transport's error is not translated.
ConnectionErrorPropagates == "ConnectionError"

\* except ConnectionError: raise DisconnectedError
ConnectionErrorRaises == "DisconnectedError"

----------------------------------------------------------------------------
(* The command line (cli.py): run(args) takes the actions of the flags in  *)
(* a fixed order on one session, printing after each; main turns the way   *)
(* run ends into an exit code.                                             *)

\* The flags in the order run() tests them.
Flags == <<"show", "turn_on", "turn_off", "mute_volume_on", "mute_volume_off",
           "select_source", "select_sound_mode", "set_volume_level",
           "volume_level_up", "volume_level_down">>

\* The parsed arguments: store_true flags are booleans, a name not given is
\* "" (None), a level is <<>> (None) or <<n>>.
Args(sources, modes, levels) ==
    [show : BOOLEAN, turn_on : BOOLEAN, turn_off : BOOLEAN,
     mute_volume_on : BOOLEAN, mute_volume_off : BOOLEAN,
     select_source : {""} \cup sources,
     select_sound_mode : {""} \cup modes,
     set_volume_level : {None} \cup {Some(n) : n \in levels},
     volume_level_up : BOOLEAN, volume_level_down : BOOLEAN]

NoArgs ==
    [show |-> FALSE, turn_on |-> FALSE, turn_off |-> FALSE,
     mute_volume_on |-> FALSE, mute_volume_off |-> FALSE,
     select_source |-> "", select_sound_mode |-> "", set_volume_level |-> None,
     volume_level_up |-> FALSE, volume_level_down |-> FALSE]

\* The flag is on the command line.
Given(args, f) ==
    CASE f \in {"select_source", "select_sound_mode"} -> args[f] # ""
      [] f = "set_volume_level" -> args[f] # None
      [] OTHER -> args[f]

\* if args.<flag>: Python's truth value of the flag: None, False and 0 are
\* false.
Truthy(args, f) ==
    CASE f \in {"select_source", "select_sound_mode"} -> args[f] # ""
      [] f = "set_volume_level" -> args[f] # None /\ args[f][1] # 0
      [] OTHER -> args[f]

\* The operation run() calls for the flag at position i.
CliCall(args, i) ==
    CASE i = 1 -> Refresh
      [] i = 2 -> Call("turn_on", FALSE, 0, "")
      [] i = 3 -> Call("turn_off", FALSE, 0, "")
      [] i = 4 -> Call("mute_volume", TRUE, 0, "")
      [] i = 5 -> Call("mute_volume", FALSE, 0, "")
      [] i = 6 -> Call("select_source", FALSE, 0, args.select_source)
      [] i = 7 -> Call("select_sound_mode", FALSE, 0, args.select_sound_mode)
      [] i = 8 -> Call("set_volume_level", FALSE, args.set_volume_level[1], "")
      [] i = 9 -> Call("volume_level_up", FALSE, 0, "")
      [] i = 10 -> Call("volume_level_down", FALSE, 0, "")

\* The keys whose accessors the print after the action at position i reads.
Printed(i) ==
    CASE i = 1 -> Keys
      [] i \in {2, 3} -> {"PW"}
      [] i \in {4, 5} -> {"MU"}
      [] i = 6 -> {"SI"}
      [] i = 7 -> {"MS"}
      [] OTHER -> {"MV"}

\* The position of the next flag run() finds true after position at, 0 when
\* there is none.
NextFlag(args, at) ==
    LET later == {i \in (at + 1)..Len(Flags) : Truthy(args, Flags[i])}
    IN  IF later = {} THEN 0 ELSE CHOOSE i \in later : \A j \in later : i <= j

\* A run: its arguments, the position of the action it is at, the operations
\* it has called, and how main ended ("" while it runs).
CliRun(args) == [args |-> args, at |-> 0, done |-> <<>>, exit |-> ""]

\* No command line drives the session.
NoCli == [args |-> NoArgs, at |-> 0, done |-> <<>>, exit |-> "none"]

\* The run after a step e of the session that left the cache d: a call is
\* noted; when the operation has ended, DisconnectedError makes main return
\* 1, any other exception leaves main, and after a normal return the print
\* reads the accessors, whose decode error leaves main as well.
CliAfter(c, e, d) ==
    IF c.exit # "" \/ e.task # 1 THEN c
    ELSE LET c1 == IF e.kind = "invoke"
                   THEN [c EXCEPT !.at = NextFlag(c.args, c.at),
                                  !.done = Append(@, e.op)]
                   ELSE c
         IN  IF e.res = "" THEN c1
             ELSE IF e.res = "DisconnectedError"
                  THEN [c1 EXCEPT !.exit = "return 1"]
             ELSE IF e.res # "ok" THEN [c1 EXCEPT !.exit = "raise " \o e.res]
             ELSE IF \E k \in Printed(c1.at) : Len(Accessor(k, d)) = 2
                  THEN [c1 EXCEPT !.exit = "raise ValueError"]
             ELSE c1

----------------------------------------------------------------------------
(* The state machine.  A task is idle, or runs one operation and stands at *)
(* one of its awaits: "sent" (the command is written; drain() and the      *)
(* timeout wrapper have not yet let _wait_for_response start) or "reading" *)
(* (in the read loop, awaiting readline()).  When a wait returns, the      *)
(* operation goes on to its next await, or to its end, in the same step.   *)

\* The session after __init__, the reader holding the given lines.
InitBuffered(buffer) ==
    /\ data = PrepareData
    /\ reading = FALSE
    /\ inbox = buffer
    /\ eof = FALSE
    /\ broken = FALSE
    /\ pc = [t \in Tasks |-> "idle"]
    /\ call = [t \in Tasks |-> NoCall]
    /\ idx = [t \in Tasks |-> 0]
    /\ pending = [t \in Tasks |-> <<>>]
    /\ seen = [t \in Tasks |-> {}]
    /\ acquired = [t \in Tasks |-> FALSE]
    /\ got = [t \in Tasks |-> {}]
    /\ overlap = [t \in Tasks |-> FALSE]
    /\ stale = Len(buffer)
    /\ ev = Event("init", 0, "", "", "", "")

InitSession == InitBuffered(<<>>)

\* The buffered lines that arrived before the last write, after a step of the
\* given kind: a read takes the oldest line.
StaleAfter(kind) == IF kind = "read" /\ stale > 0 THEN stale - 1 ELSE stale

\* A faulty variant: a refresh that ends goes on with its next query instead.
EndsContinued(t, g) ==
    /\ pc' = [pc EXCEPT ![t] = IF call[t] = Refresh THEN "sent" ELSE "idle"]
    /\ call' = [call EXCEPT ![t] = IF call[t] = Refresh THEN Refresh ELSE NoCall]
    /\ idx' = [idx EXCEPT ![t] = IF call[t] = Refresh /\ @ < Len(DATA_DEFS)
                                 THEN @ + 1 ELSE @]
    /\ pending' = [pending EXCEPT ![t] = <<>>]
    /\ seen' = [seen EXCEPT ![t] = {}]
    /\ acquired' = [acquired EXCEPT ![t] = FALSE]
    /\ got' = [g EXCEPT ![t] = {}]
    /\ overlap' = [overlap EXCEPT ![t] = FALSE]

\* The operation of task t ends; g is the bookkeeping of keys after the step.
Ends(t, g) ==
    /\ pc' = [pc EXCEPT ![t] = "idle"]
    /\ call' = [call EXCEPT ![t] = NoCall]
    /\ idx' = [idx EXCEPT ![t] = 0]
    /\ pending' = [pending EXCEPT ![t] = <<>>]
    /\ seen' = [seen EXCEPT ![t] = {}]
    /\ acquired' = [acquired EXCEPT ![t] = FALSE]
    /\ got' = [g EXCEPT ![t] = {}]
    /\ overlap' = [overlap EXCEPT ![t] = FALSE]

\* _send_command by task t running operation c at query i, up to its await
\* of drain(), in a step of the given kind that read the given line and left
\* the given buffer.
SendCommand(t, c, i, text, kind, line, buffer, g) ==
    IF StreamEnded(buffer)
    THEN /\ Ends(t, g)
         /\ stale' = Len(buffer)
         /\ ev' = Event(kind, t, IF kind = "invoke" THEN c.name ELSE "", line, "",
                    "DisconnectedError")
    ELSE /\ pc' = [pc EXCEPT ![t] = "sent"]
         /\ call' = [call EXCEPT ![t] = c]
         /\ idx' = [idx EXCEPT ![t] = i]
         /\ pending' = [pending EXCEPT ![t] = <<>>]
         /\ seen' = [seen EXCEPT ![t] = {}]
         /\ acquired' = [acquired EXCEPT ![t] = FALSE]
         /\ got' = [g EXCEPT ![t] = {}]
         /\ overlap' = [overlap EXCEPT ![t] = kind = "invoke" /\ reading]
         /\ stale' = Len(buffer)
         /\ ev' = Event(kind, t, IF kind = "invoke" THEN c.name ELSE "", line,
                    Written(text), "")

\* The wait of task t has returned: a command is done, refresh goes on with
\* its next query.
Returned(t, kind, line, buffer, g) ==
    IF call[t].name = "refresh" /\ idx[t] < Len(DATA_DEFS)
    THEN SendCommand(t, Refresh, idx[t] + 1, DATA_DEFS[idx[t] + 1].query,
                     kind, line, buffer, g)
    ELSE /\ Ends(t, g)
         /\ stale' = StaleAfter(kind)
         /\ ev' = Event(kind, t, "", line, "", "ok")

\* Idle tasks are interchangeable: the caller starts an operation on the
\* first idle one.
Free(t) == pc[t] = "idle" /\ \A u \in Tasks : pc[u] = "idle" => t <= u

\* A task calls refresh: the guard check, then the first query.
InvokeRefresh(t) ==
    /\ Free(t)
    /\ IF GuardHeld
       THEN /\ ev' = Event("invoke", t, "refresh", "", "", "ok")
            /\ UNCHANGED <<pc, call, idx, pending, seen, acquired, got, overlap, stale>>
       ELSE SendCommand(t, Refresh, 1, DATA_DEFS[1].query, "invoke", "", inbox, got)
    /\ UNCHANGED <<data, reading, inbox, eof, broken, scen>>
    /\ cli' = CliAfter(cli, ev', data')

\* A task calls a single-property command c.
InvokeCommand(t, c) ==
    /\ Free(t)
    /\ SendCommand(t, c, 0, CommandText(c), "invoke", "", inbox, got)
    /\ UNCHANGED <<data, reading, inbox, eof, broken, scen>>
    /\ cli' = CliAfter(cli, ev', data')

\* drain() and the timeout wrapper let the task go on: _wait_for_response
\* starts, and either returns at once or takes the guard.
WaitStart(t) ==
    /\ pc[t] = "sent"
    /\ IF GuardHeld
       THEN /\ Returned(t, "wait_skipped", "", inbox, got)
            /\ UNCHANGED reading
       ELSE /\ reading' = TRUE
            /\ pending' = [pending EXCEPT ![t] = Names(t)]
            /\ acquired' = [acquired EXCEPT ![t] = TRUE]
            /\ pc' = [pc EXCEPT ![t] = "reading"]
            /\ ev' = Event("wait_acquired", t, "", "", "", "")
            /\ UNCHANGED <<call, idx, seen, got, overlap, stale>>
    /\ UNCHANGED <<data, inbox, eof, broken, scen>>
    /\ cli' = CliAfter(cli, ev', data')

\* The expected keys each refresh in flight has seen parsed since its last
\* query, after a line with the given match was read.
GotAfter(match) ==
    [u \in Tasks |->
        IF call[u].name = "refresh"
        THEN got[u] \cup (Range(match) \cap Range(Names(u)))
        ELSE got[u]]

\* readline() hands the waiting task a line: _process_response, then the
\* bookkeeping of pending_names.
ReadLine(t) ==
    /\ pc[t] = "reading"
    /\ ~broken
    /\ inbox # <<>>
    /\ LET line == Head(inbox)
           match == ProcessMatch(line)
           hit == Expected(match, pending[t])
           left == IF hit THEN Remove(pending[t], match[1]) ELSE pending[t]
       IN  /\ inbox' = Tail(inbox)
           /\ data' = ProcessData(data, line)
           /\ IF hit /\ Len(left) = 0
              THEN /\ reading' = Released
                   /\ Returned(t, "read", line, Tail(inbox), GotAfter(match))
              ELSE /\ pending' = [pending EXCEPT ![t] = left]
                   /\ seen' = [seen EXCEPT
                                 ![t] = @ \cup (Range(match) \cap Range(Names(t)))]
                   /\ got' = GotAfter(match)
                   /\ stale' = StaleAfter("read")
                   /\ ev' = Event("read", t, "", line, "", "")
                   /\ UNCHANGED <<reading, pc, call, idx, acquired, overlap>>
    /\ UNCHANGED <<eof, broken, scen>>
    /\ cli' = CliAfter(cli, ev', data')

\* readline() returns "" at end-of-stream.
ReadEof(t) ==
    /\ pc[t] = "reading"
    /\ ~broken
    /\ AtEof
    /\ reading' = Released
    /\ Ends(t, got)
    /\ ev' = Event("read_eof", t, "", "", "", EofRaises)
    /\ UNCHANGED <<data, inbox, eof, broken, scen, stale>>
    /\ cli' = CliAfter(cli, ev', data')

\* readline() raises the reader's ConnectionError.
ReadConnectionError(t) ==
    /\ pc[t] = "reading"
    /\ broken
    /\ reading' = Released
    /\ Ends(t, got)
    /\ ev' = Event("read_error", t, "", "", "", ConnectionErrorRaises)
    /\ UNCHANGED <<data, inbox, eof, broken, scen, stale>>
    /\ cli' = CliAfter(cli, ev', data')

\* The timer of wait_for fires: the wait is cancelled, its finally clause
\* runs, and _with_timeout turns the TimeoutError into its own.
Timeout(t) ==
    /\ pc[t] = "reading"
    /\ reading' = Released
    /\ Ends(t, got)
    /\ ev' = Event("timeout", t, "", "", "", TimeoutRaises)
    /\ UNCHANGED <<data, inbox, eof, broken, scen, stale>>
    /\ cli' = CliAfter(cli, ev', data')

\* The caller cancels the task at one of its awaits.
Cancel(t) ==
    /\ pc[t] \in {"sent", "reading"}
    /\ reading' = IF pc[t] = "reading" THEN Released ELSE reading
    /\ Ends(t, got)
    /\ ev' = Event("cancel", t, "", "", "", "CancelledError")
    /\ UNCHANGED <<data, inbox, eof, broken, scen, stale>>
    /\ cli' = CliAfter(cli, ev', data')

\* The device sends a line.
DeviceSend(line) ==
    /\ ~eof /\ ~broken
    /\ Len(inbox) < MaxInbox
    /\ inbox' = Append(inbox, line)
    /\ ev' = Event("line", 0, "", line, "", "")
    /\ UNCHANGED <<data, reading, eof, broken, pc, call, idx, pending, seen,
                   acquired, got, overlap, scen, cli, stale>>

\* The device closes the connection: the reader is fed end-of-stream.
DeviceClose ==
    /\ ~eof /\ ~broken
    /\ eof' = TRUE
    /\ ev' = Event("eof", 0, "", "", "", "")
    /\ UNCHANGED <<data, reading, inbox, broken, pc, call, idx, pending, seen,
                   acquired, got, overlap, scen, cli, stale>>

\* The connection is lost with an error: the reader holds a ConnectionError.
ConnectionLost ==
    /\ ~eof /\ ~broken
    /\ broken' = TRUE
    /\ ev' = Event("lost", 0, "", "", "", "")
    /\ UNCHANGED <<data, reading, inbox, eof, pc, call, idx, pending, seen,
                   acquired, got, overlap, scen, cli, stale>>

----------------------------------------------------------------------------
(* Concurrent sessions: two tasks run refresh and the commands, one value  *)
(* of each argument, against a device that sends any of two lines.         *)

ConcCommands == Commands({TRUE}, {3}, {"DVD"}, {"Movie"})
ConcLines == {"PWON\r", "MUON\r"}

Init == InitSession /\ scen = NoCall /\ cli = NoCli

Next ==
    \/ \E t \in Tasks : InvokeRefresh(t)
    \/ \E t \in Tasks : \E c \in ConcCommands : InvokeCommand(t, c)
    \/ \E t \in Tasks : WaitStart(t)
    \/ \E t \in Tasks : ReadLine(t)
    \/ \E t \in Tasks : ReadEof(t)
    \/ \E t \in Tasks : ReadConnectionError(t)
    \/ \E t \in Tasks : Timeout(t)
    \/ \E t \in Tasks : Cancel(t)
    \/ \E line \in ConcLines : DeviceSend(line)
    \/ DeviceClose
    \/ ConnectionLost

Spec == Init /\ [][Next]_vars

----------------------------------------------------------------------------
(* Sequential sessions: one task runs one operation at a time, the same    *)
(* operation throughout the session, over every argument of the            *)
(* vocabularies and the volume levels below; the device sends the lines    *)
(* that answer it, and noise.                                              *)

Levels == (0 - 1)..100

MemberNames(enum_type) == {enum_type[j][1] : j \in 1..Len(enum_type)}

SoloCommands ==
    Commands(BOOLEAN, Levels, MemberNames(InputSource), MemberNames(SurroundMode))

\* The status lines of test_refresh, and a line no key starts.
RefreshLines ==
    {"PWON\r", "MUOFF\r", "MV400\r", "MVMAX980\r", "SISAT/CBL\r",
     "MSDOLBY DIGITAL\r", "XX\r"}

\* What the device may send during a session of operation c: for a command
\* its echo, other reports of its key (one of them a power token the
\* vocabulary does not have), a report of another key.
AnswerLines(c) ==
    IF c.name = "refresh" THEN RefreshLines
    ELSE {Written(CommandText(c)), "MVMAX980\r"}
         \cup (CASE CommandKey(c) = "PW" -> {"PWSTANDBY\r", "PWOFF\r", "PWBOGUS\r"}
                 [] CommandKey(c) = "MV" -> {"MV30\r", "MV305\r"}
                 [] OTHER -> {})

InitSolo ==
    /\ InitSession
    /\ scen \in {Refresh} \cup SoloCommands
    /\ cli = NoCli

NextSolo ==
    \/ scen = Refresh /\ InvokeRefresh(1)
    \/ scen # Refresh /\ InvokeCommand(1, scen)
    \/ WaitStart(1)
    \/ ReadLine(1)
    \/ ReadEof(1)
    \/ ReadConnectionError(1)
    \/ Timeout(1)
    \/ Cancel(1)
    \/ \E line \in AnswerLines(scen) : DeviceSend(line)
    \/ DeviceClose
    \/ ConnectionLost

SpecSolo == InitSolo /\ [][NextSolo]_vars

----------------------------------------------------------------------------
(* Answered refreshes: one task runs refresh, again and again, and nothing *)
(* cuts a wait short.  The device sends the status lines in any order and  *)
(* at any time; the task is scheduled when it can run, a buffered line     *)
(* wakes the reader, and a line for a key a wait expects does arrive       *)
(* during that wait.                                                       *)

\* The device reports key k while the wait of task 1 expects it.
Answer(k) ==
    /\ pc[1] = "reading"
    /\ k \in Range(pending[1])
    /\ \E line \in RefreshLines : ProcessMatch(line) = Some(k) /\ DeviceSend(line)

InitLive == InitSession /\ scen = Refresh /\ cli = NoCli

NextLive ==
    \/ InvokeRefresh(1)
    \/ WaitStart(1)
    \/ ReadLine(1)
    \/ \E line \in RefreshLines : DeviceSend(line)

SpecLive ==
    /\ InitLive
    /\ [][NextLive]_vars
    /\ WF_vars(WaitStart(1))
    /\ WF_vars(ReadLine(1))
    /\ \A k \in Keys : SF_vars(Answer(k))

----------------------------------------------------------------------------
(* Volume reports: the reader holds one volume or maximum-volume report,   *)
(* of any two or three digits, when a session of volume_level_up starts.   *)

Digit(n) == SubSeq(Digits, n + 1, n + 1)

VolumePayloads ==
    {Digit(a) \o Digit(b) : a, b \in 0..9}
    \cup {Digit(a) \o Digit(b) \o Digit(c) : a, b, c \in 0..9}

VolumeReports == {key \o p \o "\r" : key \in {"MV", "MVMAX"}, p \in VolumePayloads}

InitVolume ==
    /\ \E line \in VolumeReports : InitBuffered(<<line>>)
    /\ scen = Call("volume_level_up", FALSE, 0, "")
    /\ cli = NoCli

NextVolume ==
    \/ InvokeCommand(1, scen)
    \/ WaitStart(1)
    \/ ReadLine(1)
    \/ Timeout(1)

SpecVolume == InitVolume /\ [][NextVolume]_vars

----------------------------------------------------------------------------
(* Command-line runs: main with up to MaxFlags flags, one source, one      *)
(* sound mode and the levels 0 and 3, against a device that answers the    *)
(* operation in flight, stays silent, closes or is lost.                   *)

CliArgs ==
    {a \in Args({"DVD"}, {"Movie"}, {0, 3}) :
        Cardinality({i \in 1..Len(Flags) : Given(a, Flags[i])}) <= MaxFlags}

InitCli ==
    /\ InitSession
    /\ scen = NoCall
    /\ \E a \in CliArgs : cli = CliRun(a)

\* run() is at an if whose flag is true, and calls the operation.
CliRunning == cli.exit = "" /\ pc[1] = "idle"

\* run() has passed its last if: asyncio.run returns and main returns 0.
CliReturn ==
    /\ CliRunning
    /\ NextFlag(cli.args, cli.at) = 0
    /\ cli' = [cli EXCEPT !.exit = "return 0"]
    /\ ev' = Event("exit", 1, "", "", "", "")
    /\ UNCHANGED <<data, reading, inbox, eof, broken, pc, call, idx, pending,
                   seen, acquired, got, overlap, scen, stale>>

NextCli ==
    \/ CliRunning /\ NextFlag(cli.args, cli.at) = 1 /\ InvokeRefresh(1)
    \/ /\ CliRunning
       /\ NextFlag(cli.args, cli.at) > 1
       /\ InvokeCommand(1, CliCall(cli.args, NextFlag(cli.args, cli.at)))
    \/ CliReturn
    \/ WaitStart(1)
    \/ ReadLine(1)
    \/ ReadEof(1)
    \/ ReadConnectionError(1)
    \/ Timeout(1)
    \/ pc[1] # "idle" /\ \E line \in AnswerLines(call[1]) : DeviceSend(line)
    \/ DeviceClose
    \/ ConnectionLost

SpecCli == InitCli /\ [][NextCli]_vars

----------------------------------------------------------------------------
(* The claims.                                                             *)

Readers == {t \in Tasks : pc[t] = "reading"}

IsCommand(c) == c.name \notin {"none", "refresh"}

\* C1: under any interleaving of refresh and the commands, at most one task
\* is inside the read loop of _wait_for_response, and a line leaves the
\* reader's buffer only in a step of that task.
C1_SingleReader ==
    /\ [](Cardinality(Readers) <= 1)
    /\ [][Len(inbox') < Len(inbox) =>
            /\ ev'.kind = "read"
            /\ Readers = {ev'.task}]_vars

\* C1 witness: one task is in the read loop while the wait of another has
\* just returned without reading.
C1_Witness ==
    /\ ev.kind = "wait_skipped"
    /\ \E t \in Tasks \ {ev.task} : pc[t] = "reading"

\* The stream has ended: end-of-stream was fed and every line was read.
Ended == eof /\ inbox = <<>>

\* C2 as stated: a command called while another wait is active, the stream
\* open, has its bytes written, and its own wait returns at once, without
\* reading and without raising, whatever happens between its call and the
\* start of its wait; the other wait keeps the guard and its pending names.
C2_Original ==
    [][\A t \in Tasks :
        (overlap[t] /\ pc[t] = "sent" /\ ev'.task = t /\ ev'.kind # "cancel")
        => /\ ev'.kind = "wait_skipped"
           /\ ev'.res = "ok"
           /\ reading' = reading
           /\ inbox' = inbox]_vars

\* C2: a command called while another wait is active, the stream open, has
\* its bytes written and touches neither the guard nor the other wait; if
\* a wait is still active when the command's own wait starts, that wait
\* returns at once, without reading and without raising, and the guard flag
\* and the pending names of the active wait stay as they are.
C2_OverlapSkips ==
    [][\A t \in Tasks :
        /\ (/\ ev'.kind = "invoke" /\ ev'.task = t /\ ev'.op # "refresh"
            /\ reading /\ ~Ended)
           => /\ ev'.wrote = CommandText(call'[t]) \o "\r"
              /\ ev'.res = ""
              /\ pc'[t] = "sent"
              /\ reading' /\ inbox' = inbox /\ data' = data
              /\ \A u \in Tasks \ {t} : pending'[u] = pending[u] /\ pc'[u] = pc[u]
        /\ (/\ pc[t] = "sent" /\ IsCommand(call[t]) /\ reading
            /\ ev'.task = t /\ ev'.kind # "cancel")
           => /\ ev'.kind = "wait_skipped"
              /\ ev'.res = "ok"
              /\ ev'.wrote = ""
              /\ pc'[t] = "idle"
              /\ reading' /\ inbox' = inbox /\ data' = data
              /\ \A u \in Tasks \ {t} : pending'[u] = pending[u] /\ pc'[u] = pc[u]]_vars

\* C2 witness: a command called during a refresh has returned without
\* waiting, and the refresh is still in its read loop.
C2_Witness ==
    /\ ev.kind = "wait_skipped"
    /\ ev.res = "ok"
    /\ reading
    /\ \E u \in Tasks \ {ev.task} :
          pc[u] = "reading" /\ call[u] = Refresh /\ pending[u] # <<>>

QueryOrder == <<"PW?", "MU?", "MV?", "SI?", "MS?">>
QueryKeys == <<{"PW"}, {"MU"}, {"MV", "MVMAX"}, {"SI"}, {"MS"}>>

\* Task t writes the next query of its refresh in this step.
WritesNext(t) == call[t] = Refresh /\ call'[t] = Refresh /\ idx'[t] = idx[t] + 1

\* C4 as stated: refresh writes its queries in the order PW?, MU?, MV?, SI?,
\* MS?, and writes query i+1 only when lines for all expected keys of query
\* i were read, by whichever task, after query i was written.
C4_Original ==
    [][\A t \in Tasks :
        WritesNext(t)
        => /\ ev'.wrote = QueryOrder[idx'[t]] \o "\r"
           /\ QueryKeys[idx[t]] \subseteq got[t] \cup Range(ProcessMatch(ev'.line))]_vars

\* C4: refresh writes its queries in the order PW?, MU?, MV?, SI?, MS?, and
\* writes query i+1 only when its own wait for query i has ended: either
\* that wait took the guard and read lines for all expected keys of query i
\* after query i was written, or it returned at once because the wait of
\* another operation was active when it started.
C4_RefreshOrder ==
    [][\A t \in Tasks :
        /\ (ev'.task = t /\ ev'.kind = "invoke" /\ ev'.op = "refresh" /\ ev'.wrote # "")
           => ev'.wrote = QueryOrder[1] \o "\r" /\ idx'[t] = 1
        /\ (call[t] = Refresh /\ ev'.task = t /\ ev'.wrote # "")
           => WritesNext(t)
        /\ WritesNext(t)
           => /\ ev'.task = t
              /\ ev'.wrote = QueryOrder[idx'[t]] \o "\r"
              /\ \/ /\ ev'.kind = "read"
                    /\ pc[t] = "reading"
                    /\ acquired[t]
                    /\ QueryKeys[idx[t]] \subseteq
                           seen[t] \cup Range(ProcessMatch(ev'.line))
                 \/ /\ ev'.kind = "wait_skipped"
                    /\ pc[t] = "sent"
                    /\ \E u \in Tasks \ {t} : pc[u] = "reading"]_vars

\* C4 witness: a refresh running beside another operation has read the
\* lines of its first two queries and written the third.
C4_Witness ==
    \E t \in Tasks :
        /\ call[t] = Refresh /\ idx[t] = 3 /\ pc[t] = "sent"
        /\ ev.task = t /\ ev.kind = "read" /\ ev.wrote = "MV?\r"
        /\ data["PW"] # None /\ data["MU"] # None
        /\ \E u \in Tasks \ {t} : pc[u] = "sent"

\* C5: a wait that took the guard returns normally exactly when a line has
\* been read, during this wait, for every one of its expected keys: while it
\* is in the read loop its pending names are the expected keys not yet read
\* by it, at least one, whatever the cache holds; and a read ends the wait
\* exactly when it brings the last of them.
C5_WaitSatisfied ==
    /\ [](\A t \in Tasks :
            pc[t] = "reading"
            => /\ acquired[t]
               /\ pending[t] # <<>>
               /\ Range(pending[t]) = Range(Names(t)) \ seen[t])
    /\ [][\A t \in Tasks :
            (pc[t] = "reading" /\ ev'.task = t /\ ev'.kind = "read")
            => (pc'[t] # "reading"
                <=> Range(Names(t)) \subseteq
                        seen[t] \cup Range(ProcessMatch(ev'.line)))]_vars

\* C5 witness: the wait of refresh's third query has read MVMAX and still
\* waits for MV, whose cache entry an earlier wait populated.
C5_Witness ==
    /\ scen = Refresh
    /\ pc[1] = "reading" /\ idx[1] = 3
    /\ seen[1] = {"MVMAX"}
    /\ pending[1] = <<"MV">>
    /\ data["MV"] # None

\* C6 as stated: once the stream has ended, every operation called ends with
\* DisconnectedError, and a wait that is in its read loop then ends with
\* DisconnectedError.
C6_Original ==
    [][/\ (Ended /\ ev'.kind = "invoke") => ev'.res = "DisconnectedError"
       /\ \A t \in Tasks :
            (Ended /\ pc[t] = "reading" /\ pc'[t] # "reading")
            => ev'.res = "DisconnectedError"]_vars

\* C6: the stream stays ended; once it has ended, a command called ends with
\* DisconnectedError and writes nothing, and so does refresh when no wait is
\* active, while refresh called during an active wait returns normally and
\* writes nothing; a wait in its read loop then ends with DisconnectedError
\* at its read, unless its timeout fires or its task is cancelled first.
C6_Disconnected ==
    [][/\ Ended => (eof' /\ inbox' = <<>>)
       /\ (Ended /\ ev'.kind = "invoke" /\ (ev'.op # "refresh" \/ ~reading))
          => /\ ev'.res = "DisconnectedError"
             /\ ev'.wrote = ""
             /\ pc'[ev'.task] = "idle"
       /\ (Ended /\ ev'.kind = "invoke" /\ ev'.op = "refresh" /\ reading)
          => /\ ev'.res = "ok"
             /\ ev'.wrote = ""
             /\ pc'[ev'.task] = "idle"
       /\ \A t \in Tasks :
            (Ended /\ pc[t] = "reading" /\ ev'.task = t)
            => \/ /\ ev'.kind = "read_eof"
                  /\ ev'.res = "DisconnectedError"
                  /\ pc'[t] = "idle"
               \/ ev'.kind \in {"timeout", "cancel"}]_vars

\* C6 witness: refresh was called after the stream ended, with the guard
\* free, and ended with DisconnectedError.
C6_Witness ==
    /\ Ended
    /\ ~reading
    /\ ev.kind = "invoke" /\ ev.op = "refresh"
    /\ ev.res = "DisconnectedError"

\* C7: a wait whose timeout fires ends its operation with AvrTimeoutError,
\* and the cache keeps every entry it had: no entry, of this refresh or of an
\* earlier operation, goes back to unknown.
C7_Timeout ==
    [][/\ ev'.kind = "timeout"
          => /\ ev'.res = "AvrTimeoutError"
             /\ pc'[ev'.task] = "idle"
             /\ data' = data
       /\ \A k \in Keys : data[k] # None => data'[k] # None]_vars

\* C7 witness: a refresh has timed out on its second query, and the power
\* entry its first query populated is still there.
C7_Witness ==
    /\ scen = Refresh
    /\ ev.kind = "timeout"
    /\ data["PW"] = Some("ON")
    /\ data["MU"] = None

\* C8: a wait in its read loop whose read finds the stream ended, or raises
\* the transport's ConnectionError, ends its operation with
\* DisconnectedError, the guard released.
C8_ReadFailure ==
    [][/\ ev'.kind \in {"read_eof", "read_error"}
          => /\ ev'.res = "DisconnectedError"
             /\ pc'[ev'.task] = "idle"
             /\ ~reading'
       /\ \A t \in Tasks :
            (/\ pc[t] = "reading" /\ (Ended \/ broken)
             /\ ev'.task = t /\ ev'.kind \notin {"timeout", "cancel"})
            => ev'.kind = IF broken THEN "read_error" ELSE "read_eof"]_vars

\* C8 witness: a read has raised ConnectionError and the operation ended
\* with DisconnectedError.
C8_Witness ==
    /\ broken
    /\ ev.kind = "read_error"
    /\ ev.res = "DisconnectedError"
    /\ ~reading

\* What the accessors give after command c was confirmed by its own line.
RoundTrip(c, d) ==
    CASE c.name = "mute_volume" -> is_volume_muted(d) = Some(c.mute)
      [] c.name = "turn_on" -> power(d) = Some("On")
      [] c.name = "select_source" -> source(d) = Some(c.member)
      [] c.name = "select_sound_mode" -> sound_mode(d) = Some(c.member)
      [] c.name = "set_volume_level" ->
            (c.level \in 0..99 => volume_level(d) = Some(10 * c.level))
      [] OTHER -> TRUE

\* C9: a command run alone whose wait reads the command's own line returns
\* normally, and the accessor of its key gives the value commanded: the
\* mute flag, Power.On, the source, the sound mode, the level from 0 to 99;
\* a volume command answered MV30 or MV305 gives 30.0 or 30.5 (levels are
\* counted in tenths).
C9_RoundTrip ==
    [][(IsCommand(scen) /\ pc[1] = "reading" /\ ev'.kind = "read")
       => /\ ev'.line = CommandText(scen) \o "\r"
             => (ev'.res = "ok" /\ RoundTrip(scen, data'))
          /\ (CommandKey(scen) = "MV" /\ ev'.line = "MV30\r")
             => (ev'.res = "ok" /\ volume_level(data') = Some(300))
          /\ (CommandKey(scen) = "MV" /\ ev'.line = "MV305\r")
             => (ev'.res = "ok" /\ volume_level(data') = Some(305))]_vars

\* C9 witness: set_volume_level(5) was answered MV05 and returned; the
\* volume level is 5.0.
C9_Witness ==
    /\ scen.name = "set_volume_level" /\ scen.level = 5
    /\ ev.kind = "read" /\ ev.line = "MV05\r" /\ ev.res = "ok"
    /\ volume_level(data) = Some(50)

\* C10: the wait of turn_off ends with any line of key PW: answered
\* PWSTANDBY the operation returns normally and power is Power.Standby,
\* answered PWOFF it returns normally and power is Power.Off.
C10_TurnOff ==
    [][(/\ scen.name = "turn_off" /\ pc[1] = "reading"
        /\ ev'.kind = "read" /\ ProcessMatch(ev'.line) = Some("PW"))
       => /\ ev'.res = "ok"
          /\ pc'[1] = "idle"
          /\ ev'.line = "PWSTANDBY\r" => power(data') = Some("Standby")
          /\ ev'.line = "PWOFF\r" => power(data') = Some("Off")]_vars

\* C10 witness: turn_off was answered PWOFF and returned; power is Off.
C10_Witness ==
    /\ scen.name = "turn_off"
    /\ ev.kind = "read" /\ ev.line = "PWOFF\r" /\ ev.res = "ok"
    /\ power(data) = Some("Off")

\* The text of a line after its first n characters, its terminator left out.
PayloadOf(line, n) == SubSeq(line, n + 1, Len(line) - 1)

\* C11: the longest key wins.  A line that starts with MVMAX is parsed as
\* MVMAX: its payload goes to the MVMAX entry, every other entry, MV
\* included, stays as it is, and a wait that expects MV still expects it; a
\* line that starts with MV and not with MVMAX goes to the MV entry alone.
C11_LongestKeyWins ==
    [][\A t \in Tasks :
        (pc[t] = "reading" /\ ev'.task = t /\ ev'.kind = "read")
        => /\ StartsWith(ev'.line, "MVMAX")
              => /\ data'["MVMAX"] = Some(PayloadOf(ev'.line, 5))
                 /\ \A k \in Keys \ {"MVMAX"} : data'[k] = data[k]
                 /\ "MV" \in Range(pending[t])
                    => (pc'[t] = "reading" /\ "MV" \in Range(pending'[t]))
           /\ (StartsWith(ev'.line, "MV") /\ ~StartsWith(ev'.line, "MVMAX"))
              => /\ data'["MV"] = Some(PayloadOf(ev'.line, 2))
                 /\ \A k \in Keys \ {"MV"} : data'[k] = data[k]
                 /\ "MVMAX" \in Range(pending[t])
                    => (pc'[t] = "reading" /\ "MVMAX" \in Range(pending'[t]))]_vars

\* C11 witness: a volume command has read MVMAX980; the line went to the
\* MVMAX entry, the MV entry is still unknown and the wait still expects MV.
C11_Witness ==
    /\ scen.name = "volume_level_up"
    /\ ev.kind = "read" /\ ev.line = "MVMAX980\r"
    /\ pc[1] = "reading" /\ pending[1] = <<"MV">>
    /\ data["MVMAX"] = Some("980")
    /\ data["MV"] = None

\* Refresh has just returned normally with every cache entry populated.
RefreshDone ==
    /\ ev.kind = "read" /\ ev.task = 1 /\ ev.res = "ok"
    /\ pc[1] = "idle"
    /\ \A k \in Keys : data[k] # None

\* C12: a refresh running alone, its expected lines arriving during the
\* waits that expect them, in whatever order the device sends its lines,
\* returns normally in the end, and whenever it returns all six entries are
\* populated.
C12_RefreshCompletes ==
    /\ [][(call[1] = Refresh /\ pc'[1] = "idle") => RefreshDone']_vars
    /\ (pc[1] # "idle") ~> RefreshDone

\* C12 witness: a refresh has returned normally with the six entries of
\* test_refresh.
C12_Witness ==
    /\ RefreshDone
    /\ data["PW"] = Some("ON") /\ data["MU"] = Some("OFF")
    /\ data["MV"] = Some("400") /\ data["MVMAX"] = Some("980")
    /\ data["SI"] = Some("SAT/CBL") /\ data["MS"] = Some("DOLBY DIGITAL")

\* C13: the accessor of a key of which no line has been parsed returns None,
\* never a decode error: every accessor returns None at the start, and one
\* that returns None goes on doing so through every step, timeouts and
\* disconnections included, that is not the read of a line of its key.
C13_UnknownIsNone ==
    /\ [](ev.kind = "init" => \A k \in Keys : Accessor(k, data) = None)
    /\ [][\A k \in Keys :
            (/\ Accessor(k, data) = None
             /\ ~(ev'.kind = "read" /\ ProcessMatch(ev'.line) = Some(k)))
            => Accessor(k, data') = None]_vars

\* C13 witness: a refresh was cut off by the end of the stream after the
\* power report; the other five accessors return None.
C13_Witness ==
    /\ scen = Refresh
    /\ ev.kind = "read_eof"
    /\ power(data) = Some("On")
    /\ \A k \in Keys \ {"PW"} : Accessor(k, data) = None

\* C14: in every reachable state the keys of the cache are exactly PW, MU,
\* MV, MVMAX, SI and MS.
C14_KeySet == DOMAIN data = {"PW", "MU", "MV", "MVMAX", "SI", "MS"}

\* C14 witness: a line that starts with no key has been read by a wait, after
\* a line that did.
C14_Witness ==
    /\ ev.kind = "read" /\ ev.line = "XX\r"
    /\ pc[1] = "reading"
    /\ \E k \in Keys : data[k] # None

\* Lines of a known key whose payload does not decode: a power token outside
\* the vocabulary, volume payloads that are not numbers.
UndecodableLines == {"PWBOGUS\r", "MVUP\r", "MVDOWN\r"}

\* C15: decoding is lazy.  A line of a known key whose payload does not
\* decode is cached as it is and counts for a wait that expects its key: the
\* read raises nothing, and a command waiting for that key returns normally.
\* The error shows when the accessor of that key is read, and the other
\* accessors give what they gave before.
C15_LazyDecoding ==
    [][(pc[1] = "reading" /\ ev'.kind = "read" /\ ev'.line \in UndecodableLines)
       => LET key == SubSeq(ev'.line, 1, 2)
          IN  /\ data'[key] = Some(PayloadOf(ev'.line, 2))
              /\ ev'.res \in {"", "ok"}
              /\ (IsCommand(scen) /\ CommandKey(scen) = key)
                 => (ev'.res = "ok" /\ pc'[1] = "idle")
              /\ Accessor(key, data') = Raise("ValueError")
              /\ \A k \in Keys \ {key} :
                    Accessor(k, data') = Accessor(k, data)]_vars

\* C15 witness: turn_on was answered PWBOGUS and returned normally; reading
\* power raises ValueError, the other accessors return None.
C15_Witness ==
    /\ scen.name = "turn_on"
    /\ ev.kind = "read" /\ ev.line = "PWBOGUS\r" /\ ev.res = "ok"
    /\ data["PW"] = Some("BOGUS")
    /\ power(data) = Raise("ValueError")
    /\ \A k \in Keys \ {"PW"} : Accessor(k, data) = None

\* C16: for MV and MVMAX alike, a cached payload of two digits d1d2 decodes
\* to the whole number d1d2, and one of three digits d1d2d3 to d1d2 and d3
\* tenths (levels are counted in tenths).
C16_VolumeDecoding ==
    \A key \in {"MV", "MVMAX"} :
        data[key] # None
        => /\ \A a, b \in 0..9 :
                data[key][1] = Digit(a) \o Digit(b)
                => Accessor(key, data) = Some(100 * a + 10 * b)
           /\ \A a, b, c \in 0..9 :
                data[key][1] = Digit(a) \o Digit(b) \o Digit(c)
                => Accessor(key, data) = Some(100 * a + 10 * b + c)

\* C16 witness: the report MVMAX305 was read and cached; the maximum volume
\* level is 30.5.
C16_Witness ==
    /\ ev.kind = "read" /\ ev.line = "MVMAX305\r"
    /\ data["MVMAX"] = Some("305")
    /\ max_volume_level(data) = Some(305)

\* The operations the flags of the command line ask for, in the order of
\* run().
Requested(args) ==
    LET given == SelectSeq(<<1, 2, 3, 4, 5, 6, 7, 8, 9, 10>>,
                           LAMBDA i : Given(args, Flags[i]))
    IN  [j \in 1..Len(given) |-> CliCall(args, given[j]).name]

IsPrefix(s, t) == Len(s) <= Len(t) /\ SubSeq(t, 1, Len(s)) = s

\* C17 as stated: the operations the flags ask for are called in sequence;
\* main ends by returning 1, after a DisconnectedError, or by returning 0,
\* and it returns 0 only when every one of them was called.
C17_ExitCode ==
    /\ IsPrefix(cli.done, Requested(cli.args))
    /\ cli.exit # "" => cli.exit \in {"return 0", "return 1"}
    /\ cli.exit = "return 0" => cli.done = Requested(cli.args)

\* C18: while a wait is active, a line whose parsed key the wait does not
\* expect puts its payload in the cache entry of that key, leaves every
\* other entry and the pending names as they are, and the wait goes on: it
\* neither returns nor raises.
C18_UnexpectedKey ==
    [][\A t \in Tasks :
        (/\ pc[t] = "reading" /\ ev'.task = t /\ ev'.kind = "read"
         /\ ProcessMatch(ev'.line) # None
         /\ ProcessMatch(ev'.line)[1] \notin Range(pending[t]))
        => LET key == ProcessMatch(ev'.line)[1]
           IN  /\ data'[key] = Some(PayloadOf(ev'.line, Len(key)))
               /\ \A k \in Keys \ {key} : data'[k] = data[k]
               /\ pending'[t] = pending[t]
               /\ pc'[t] = "reading"
               /\ reading'
               /\ ev'.res = ""]_vars

\* C18 witness: turn_on, waiting for PW, has read MVMAX980: the maximum
\* volume is cached and the wait goes on.
C18_Witness ==
    /\ scen.name = "turn_on"
    /\ ev.kind = "read" /\ ev.line = "MVMAX980\r"
    /\ pc[1] = "reading" /\ pending[1] = <<"PW">>
    /\ data["MVMAX"] = Some("980")
    /\ data["PW"] = None

\* Task t issues a command in this step: it calls a single-property command,
\* or calls refresh, or its refresh goes from one wait to the next query.
Issues(t) ==
    /\ ev'.task = t
    /\ \/ ev'.kind = "invoke" /\ ~(ev'.op = "refresh" /\ reading)
       \/ /\ call[t] = Refresh /\ idx[t] < Len(QueryOrder)
          /\ ev'.kind \in {"read", "wait_skipped"}
          /\ pc'[t] \in {"sent", "idle"}

\* The text of the command issued by task t in this step.
IssuedText(t) ==
    IF ev'.kind = "invoke"
    THEN IF ev'.op = "refresh" THEN QueryOrder[1] ELSE CommandText(scen)
    ELSE QueryOrder[idx[t] + 1]

\* C19: when an operation issues its command with the transport at
\* end-of-stream, it raises DisconnectedError and writes nothing; otherwise
\* it writes exactly the command text and one carriage return, and its wait
\* reads a line only later: the wait starts after the write, with no name
\* removed and no line read.
C19_Issuance ==
    [][\A t \in Tasks :
        /\ Issues(t)
           => IF eof /\ inbox' = <<>>
              THEN /\ ev'.res = "DisconnectedError"
                   /\ ev'.wrote = ""
                   /\ pc'[t] = "idle"
              ELSE /\ ev'.res = ""
                   /\ ev'.wrote = IssuedText(t) \o "\r"
                   /\ pc'[t] = "sent"
                   /\ pending'[t] = <<>> /\ seen'[t] = {}
                   /\ ev'.kind = "invoke" => inbox' = inbox
        /\ (ev'.task = t /\ ev'.wrote # "") => Issues(t)
        /\ (pc'[t] = "reading" /\ pc[t] # "reading")
           => pc[t] = "sent" /\ ev'.wrote = "" /\ inbox' = inbox
        /\ (ev'.task = t /\ ev'.kind \in {"read", "read_eof"})
           => pc[t] = "reading"]_vars

\* C19 witness: set_volume_level(3) was called on a connected transport and
\* wrote MV03 and a carriage return; its wait has not started.
C19_Witness ==
    /\ scen.name = "set_volume_level" /\ scen.level = 3
    /\ ev.kind = "invoke" /\ ev.wrote = "MV03\r" /\ ev.res = ""
    /\ pc[1] = "sent" /\ ~reading

\* C19 witness: a command was called at end-of-stream and raised
\* DisconnectedError without writing.
C19_WitnessEof ==
    /\ scen # Refresh
    /\ ev.kind = "invoke" /\ ev.res = "DisconnectedError" /\ ev.wrote = ""
    /\ eof /\ inbox = <<>>

\* C20: a refresh called while the wait of another operation holds the guard
\* returns normally: it writes nothing, reads no line, changes no cache
\* entry and leaves the waiting operation as it was; the waiting operation
\* still returns when it reads the line of the last key it waits for.
C20_RefreshSkipped ==
    [][/\ (ev'.kind = "invoke" /\ ev'.op = "refresh" /\ reading)
          => /\ ev'.res = "ok"
             /\ ev'.wrote = ""
             /\ inbox' = inbox
             /\ data' = data
             /\ reading'
             /\ pc' = pc /\ call' = call /\ pending' = pending
       /\ \A u \in Tasks :
             (/\ pc[u] = "reading" /\ call[u] # Refresh
              /\ ev'.task = u /\ ev'.kind = "read"
              /\ ProcessMatch(ev'.line) # None
              /\ pending[u] = <<ProcessMatch(ev'.line)[1]>>)
             => ev'.res = "ok" /\ pc'[u] = "idle" /\ ~reading']_vars

\* C20 witness: refresh was called while a command was waiting for its line
\* and returned without a query; the command still waits.
C20_Witness ==
    /\ ev.kind = "invoke" /\ ev.op = "refresh" /\ ev.res = "ok" /\ ev.wrote = ""
    /\ reading
    /\ \E u \in Tasks : pc[u] = "reading" /\ call[u] # Refresh /\ pending[u] # <<>>
    /\ \A t \in Tasks : call[t] # Refresh

C22_WitnessTimeout ==
    /\ scen.name = "turn_on"
    /\ ev.kind = "timeout"
    /\ data["PW"] = None

\* C23: set_volume_level(level) writes MV, the level as exactly two decimal
\* digits (zero-padded below ten) and a carriage return, for every integer
\* level it is called with.
C23_TwoDigits ==
    (scen.name = "set_volume_level" /\ ev.kind = "invoke" /\ ev.wrote # "")
    => /\ Len(ev.wrote) = 5
       /\ SubSeq(ev.wrote, 1, 2) = "MV"
       /\ AllDigits(SubSeq(ev.wrote, 3, 4))
       /\ DigitsVal(SubSeq(ev.wrote, 3, 4)) = scen.level
       /\ SubSeq(ev.wrote, 5, 5) = "\r"

\* Within 0..99 the text is as C23 says: set_volume_level(3) wrote MV03.
C23_InRange ==
    (scen.name = "set_volume_level" /\ scen.level \in 0..99
       /\ ev.kind = "invoke" /\ ev.wrote # "")
    => /\ Len(ev.wrote) = 5
       /\ SubSeq(ev.wrote, 1, 2) = "MV"
       /\ AllDigits(SubSeq(ev.wrote, 3, 4))
       /\ DigitsVal(SubSeq(ev.wrote, 3, 4)) = scen.level
       /\ SubSeq(ev.wrote, 5, 5) = "\r"

\* C24: when a command that waited itself returns normally, the line that
\* ended its wait arrived after the command was written: a line the reader
\* had buffered before the write, such as the late answer to an earlier
\* operation that timed out, does not end the wait of a later operation.
C24_Fresh ==
    [][(scen # Refresh /\ ev'.kind = "read" /\ ev'.res = "ok") => stale = 0]_vars

\* C25: a refresh that fails at a query with AvrTimeoutError or
\* DisconnectedError is over: the failing step writes nothing and leaves the
\* task idle with no query in hand, and a later query is written only by a
\* refresh whose wait for the query before it returned, never after an
\* error; a query written from idle is the first one, of a new call.
C25_NoContinuation ==
    [][\A t \in Tasks :
        /\ (/\ call[t] = Refresh /\ ev'.task = t
            /\ ev'.res \in {"AvrTimeoutError", "DisconnectedError"})
           => /\ ev'.wrote = ""
              /\ pc'[t] = "idle" /\ call'[t] = NoCall /\ idx'[t] = 0
        /\ (/\ ev'.task = t /\ ev'.wrote # ""
            /\ \E j \in 2..Len(QueryOrder) : ev'.wrote = QueryOrder[j] \o "\r")
           => /\ call[t] = Refresh /\ pc[t] \in {"sent", "reading"}
              /\ ev'.kind \in {"read", "wait_skipped"}
              /\ ev'.res = ""
              /\ ev'.wrote = QueryOrder[idx[t] + 1] \o "\r"
        /\ (pc[t] = "idle" /\ ev'.task = t /\ ev'.op = "refresh" /\ ev'.wrote # "")
           => ev'.wrote = QueryOrder[1] \o "\r"]_vars

\* C25 witness: refresh read the power, wrote MU? and timed out waiting:
\* the task is idle, the mute state and what follows it are unknown.
C25_Witness ==
    /\ scen = Refresh
    /\ ev.kind = "timeout" /\ ev.res = "AvrTimeoutError" /\ ev.wrote = ""
    /\ pc[1] = "idle" /\ call[1] = NoCall
    /\ data["PW"] = Some("ON")
    /\ data["MU"] = None /\ data["MV"] = None /\ data["SI"] = None

----------------------------------------------------------------------------
(* Overlapping operations under fairness: two tasks run refresh and        *)
(* turn_on; drain() returns and the timer of wait_for fires. The caller     *)
(* cancels nothing.                                                         *)

FairCommands == {c \in ConcCommands : c.name = "turn_on"}
FairLines == {"PWON\r"}

NextFair ==
    \/ \E t \in Tasks : InvokeRefresh(t)
    \/ \E t \in Tasks : \E c \in FairCommands : InvokeCommand(t, c)
    \/ \E t \in Tasks : WaitStart(t)
    \/ \E t \in Tasks : ReadLine(t)
    \/ \E t \in Tasks : ReadEof(t)
    \/ \E t \in Tasks : ReadConnectionError(t)
    \/ \E t \in Tasks : Timeout(t)
    \/ \E line \in FairLines : DeviceSend(line)
    \/ DeviceClose
    \/ ConnectionLost

SpecFair ==
    /\ Init
    /\ [][NextFair]_vars
    /\ \A t \in Tasks : WF_vars(WaitStart(t)) /\ WF_vars(Timeout(t))

\* C26: every operation ends, whatever the other task does: a task that is
\* in an operation is idle again later, and the step that ends an operation
\* ends it by normal return, AvrTimeoutError or DisconnectedError.
C26_Terminates ==
    /\ \A t \in Tasks : (pc[t] # "idle") ~> (pc[t] = "idle")
    /\ [][\A t \in Tasks :
            /\ (ev'.task = t /\ ev'.res # "")
               => /\ ev'.res \in {"ok", "AvrTimeoutError", "DisconnectedError"}
                  /\ pc'[t] = "idle"
            /\ (pc[t] # "idle" /\ pc'[t] = "idle")
               => ev'.task = t /\ ev'.res # ""]_vars

\* C26 witness: an operation timed out while the other task was in an
\* operation of its own, and its task is idle again.
C26_Witness ==
    \E t \in Tasks :
        /\ ev.task = t /\ ev.kind = "timeout" /\ ev.res = "AvrTimeoutError"
        /\ pc[t] = "idle"
        /\ \E u \in Tasks \ {t} : pc[u] # "idle"

\* The carriage returns in the bytes w.
Terminators(w) == {i \in 1..Len(w) : SubSeq(w, i, i) = "\r"}

\* C27: what goes to the transport is a sequence of whole command lines:
\* every step that writes, with the other task at any point of its own
\* operation, writes the command text of the writing task's operation and
\* exactly one carriage return, the last byte.
C27_WholeLines ==
    [][ev'.wrote # ""
        => LET t == ev'.task
           IN  /\ t \in Tasks /\ call'[t] # NoCall
               /\ ev'.wrote = (IF call'[t] = Refresh THEN QueryOrder[idx'[t]]
                               ELSE CommandText(call'[t])) \o "\r"
               /\ Terminators(ev'.wrote) = {Len(ev'.wrote)}]_vars

\* C27 witness: refresh has written PW? and awaits drain(); turn_on, called
\* by the other task, wrote PWON and a carriage return.
C27_Witness ==
    /\ call[1] = Refresh /\ pc[1] = "sent" /\ idx[1] = 1
    /\ ev.task = 2 /\ ev.kind = "invoke" /\ ev.wrote = "PWON\r"
    /\ pc[2] = "sent"

\* C28: for every integer N given to --set-volume-level, 0 included, the
\* run calls set_volume_level(N): a run that returned 0 has made the call,
\* and the call wrote the command for N.
C28_SetVolumeCalled ==
    /\ (cli.exit = "return 0" /\ cli.args.set_volume_level # None)
       => \E i \in 1..Len(cli.done) : cli.done[i] = "set_volume_level"
    /\ (cli.exit = "" /\ ev.kind = "invoke" /\ ev.op = "set_volume_level"
          /\ ev.wrote # "")
       => /\ cli.args.set_volume_level # None
          /\ ev.wrote = "MV" \o Format02(cli.args.set_volume_level[1]) \o "\r"

\* With a level other than 0 the call is made: --set-volume-level 3 wrote
\* MV03.
C28_NonZero ==
    (cli.exit = "return 0" /\ cli.args.set_volume_level # None
       /\ cli.args.set_volume_level # Some(0))
    => \E i \in 1..Len(cli.done) : cli.done[i] = "set_volume_level"

====
